---------------------------- MODULE Spec2Model ----------------------------
(***************************************************************************)
(* A model of bip39-dict: the 8-bit / 11-bit transcoder (src/bits.rs),     *)
(* the Entropy <-> Mnemonics conversions (src/entropy.rs) and the string   *)
(* form of Mnemonics (src/mnemonics.rs, src/index.rs, src/dictionary).     *)
(*                                                                         *)
(* Bytes, indices and usize values are naturals; a cast to u8 / u16 is a   *)
(* reduction modulo 2^8 / 2^16.  A Rust panic (assert!, unwrap on None,    *)
(* an index out of bounds) is the result [kind |-> "panic"].               *)
(***************************************************************************)
EXTENDS Naturals, Sequences, FiniteSets

VARIABLES
    N,          \* const N: the number of bytes of Entropy<N>
    W,          \* const W: the number of words of Mnemonics<W>
    CS,         \* const CS: the number of checksum bits
    sha,        \* which member of the digest family Sha256 is (see Sha256)
    entropy,    \* the Entropy<N> the caller holds (self.0)
    mnemonics,  \* the Mnemonics<W> the caller holds (its indices)
    origin,     \* where `mnemonics` comes from
    enc,        \* what to_mnemonics returned
    dec,        \* what from_mnemonics returned
    pc,         \* the caller's position
    dic,        \* the dictionary handed to Mnemonics::from_string
    text,       \* the string handed to Mnemonics::from_string
    parsed,     \* what from_string returned
    raw,        \* the u16 handed to MnemonicIndex::new
    made,       \* what MnemonicIndex::new returned
    held,       \* the MnemonicIndex handed to lookup_word
    found,      \* what lookup_mnemonic returned for the word of `held`
    symbols,    \* the 11-bit values a caller of the transcoder writes
    bw,         \* its BitWriterBy11, with what the closure captured
    rd,         \* the ReadState fed with the emitted bytes, and its symbols
    br,         \* the BitReaderBy11 over the emitted bytes, and its symbols
    bpc,        \* the position of the caller of the transcoder
    wstate,     \* a WriteState
    wacc,       \* the accumulator and bit count that pack beside it
    rstate,     \* a ReadState
    racc,       \* the accumulator and bit count that unpack beside it
    step,       \* the last step of wstate / rstate: its input and its output
    insts       \* the conversions in progress, each with its own locals

convVars ==
    <<N, W, CS, sha, entropy, mnemonics, origin, enc, dec, pc, dic, text, parsed>>
indexVars == <<raw, made>>
dictVars == <<held, found>>
bitsVars == <<symbols, bw, rd, br, bpc>>
stepVars == <<wstate, wacc, rstate, racc, step>>
pairVars == <<insts>>

vars == <<convVars, indexVars, dictVars, bitsVars, stepVars, pairVars>>

---------------------------------------------------------------------------
(* Bounds of the model.                                                    *)

MaxN == 11          \* entropy bytes
MaxW == 8           \* words
MaxPattern == 3     \* entropy values tried per N: patterns 0..MaxPattern
MaxSha == 1         \* digest family members 0..MaxSha
MaxGiven == 2       \* caller-supplied phrases tried per W: 0..MaxGiven
MaxTextW == 3       \* words expected of a parsed string: 0..MaxTextW
MaxTextLen == 5     \* characters of a parsed string
Radix == 46         \* letters of the model's alphabet: 0..Radix-1

---------------------------------------------------------------------------
(* Machine arithmetic.                                                     *)

RECURSIVE Pow2(_)
Pow2(n) == IF n = 0 THEN 1 ELSE 2 * Pow2(n - 1)

U8(x) == x % 256
U16(x) == x % 65536

Shl(x, n) == x * Pow2(n)
Shr(x, n) == x \div Pow2(n)

RECURSIVE BitAnd(_, _)
BitAnd(a, b) ==
    IF a = 0 \/ b = 0 THEN 0
    ELSE (a % 2) * (b % 2) + 2 * BitAnd(a \div 2, b \div 2)

RECURSIVE BitOr(_, _)
BitOr(a, b) ==
    IF a = 0 THEN b
    ELSE IF b = 0 THEN a
    ELSE (IF a % 2 = 1 \/ b % 2 = 1 THEN 1 ELSE 0) + 2 * BitOr(a \div 2, b \div 2)

---------------------------------------------------------------------------
(* src/index.rs                                                            *)

MAX_MNEMONIC_VALUE == 2047

\* MnemonicIndex::new: Some(m) is [some |-> TRUE, v |-> m]
\* new keeping the low eleven bits of a value that does not fit
MnemonicIndexNewWrap(m) == [some |-> TRUE, v |-> m % (MAX_MNEMONIC_VALUE + 1)]

MnemonicIndexNew(m) ==
    IF m <= MAX_MNEMONIC_VALUE THEN [some |-> TRUE, v |-> m]
    ELSE [some |-> FALSE, v |-> 0]

---------------------------------------------------------------------------
(* src/bits.rs: WriteState.  Sk(c) is [k |-> k, c |-> c]; S0 carries 0.    *)

WS(k, c) == [k |-> k, c |-> c]

WriteS0 == WS(0, 0)

One(byte, state) == [bytes |-> <<byte>>, state |-> state]
\* Double with its bytes the other way round
DoubleSwapped(byte1, byte2, state) == [bytes |-> <<byte2, byte1>>, state |-> state]

Double(byte1, byte2, state) == [bytes |-> <<byte1, byte2>>, state |-> state]

\* WriteState::append11, for v < 2048 (the assert is in BitWriterWrite)
append11(self, v) ==
    CASE self.k = 0 -> One(U8(Shr(v, 3)), WS(3, U8(BitAnd(v, 7))))
      [] self.k = 1 -> One(BitOr(U8(Shl(self.c, 7)), U8(Shr(v, 4))),
                           WS(4, U8(BitAnd(v, 15))))
      [] self.k = 2 -> One(BitOr(U8(Shl(self.c, 6)), U8(Shr(v, 5))),
                           WS(5, U8(BitAnd(v, 31))))
      [] self.k = 3 -> One(BitOr(U8(Shl(self.c, 5)), U8(Shr(v, 6))),
                           WS(6, U8(BitAnd(v, 63))))
      [] self.k = 4 -> One(BitOr(U8(Shl(self.c, 4)), U8(Shr(v, 7))),
                           WS(7, U8(BitAnd(v, 127))))
      [] self.k = 5 -> Double(BitOr(U8(Shl(self.c, 3)), U8(Shr(v, 8))),
                              U8(v), WriteS0)
      [] self.k = 6 -> Double(BitOr(U8(Shl(self.c, 2)), U8(Shr(v, 9))),
                              U8(Shr(v, 1)),
                              WS(1, BitAnd(U8(v), 1)))
      [] self.k = 7 -> Double(BitOr(U8(Shl(self.c, 1)), U8(Shr(v, 10))),
                              U8(Shr(v, 2)),
                              WS(2, BitAnd(U8(v), 3)))

---------------------------------------------------------------------------
(* src/bits.rs: ReadState.  Sk(c) is [k |-> k, c |-> c]; S0 carries 0.     *)

\* a ReadState that carries a u8
RSByte(k, c) == [k |-> k, c |-> c % 256]

RS(k, c) == [k |-> k, c |-> c]

\* a first state that holds three bits already
ReadS0Pending == RS(3, 0)

ReadS0 == RS(0, 0)

\* Zero leaving the state without the eight bits counted
ZeroShort(state) == [one |-> FALSE, n |-> 0, state |-> [state EXCEPT !.k = state.k - 8]]

\* Zero forgetting the byte it was given
ZeroReset(state) == [one |-> FALSE, n |-> 0, state |-> RS(0, 0)]

Zero(state) == [one |-> FALSE, n |-> 0, state |-> state]
\* One keeping the low ten bits of the symbol
OneReadTen(n, state) == [one |-> TRUE, n |-> n % 1024, state |-> state]

OneRead(n, state) == [one |-> TRUE, n |-> n, state |-> state]

\* value_or, computed in 16 bits
value_or16(self, b) ==
    IF self.k = 0 THEN b ELSE U16(BitOr(Shl(self.c, 8), b))

\* ReadState::value_or: a u32; c is a u16, so (c as u32) << 8 loses no bit
value_or(self, b) ==
    IF self.k = 0 THEN b ELSE BitOr(Shl(self.c, 8), b)

\* ReadState::read8
read8(self, v) ==
    LET nc == value_or(self, v) IN
    CASE self.k = 0  -> Zero(RS(8, U16(nc)))
      [] self.k = 1  -> Zero(RS(9, U16(nc)))
      [] self.k = 2  -> Zero(RS(10, U16(nc)))
      [] self.k = 3  -> OneRead(U16(nc), ReadS0)
      [] self.k = 4  -> OneRead(U16(Shr(nc, 1)), RS(1, BitAnd(U16(nc), 1)))
      [] self.k = 5  -> OneRead(U16(Shr(nc, 2)), RS(2, BitAnd(U16(nc), 3)))
      [] self.k = 6  -> OneRead(U16(Shr(nc, 3)), RS(3, BitAnd(U16(nc), 7)))
      [] self.k = 7  -> OneRead(U16(Shr(nc, 4)), RS(4, BitAnd(U16(nc), 15)))
      [] self.k = 8  -> OneRead(U16(Shr(nc, 5)), RS(5, BitAnd(U16(nc), 31)))
      [] self.k = 9  -> OneRead(U16(Shr(nc, 6)), RS(6, BitAnd(U16(nc), 63)))
      [] self.k = 10 -> OneRead(U16(Shr(nc, 7)), RS(7, BitAnd(U16(nc), 127)))

---------------------------------------------------------------------------
(* src/bits.rs: BitWriterBy11 { writer, state }.  `writer` is the closure; *)
(* the model holds what the closure captured.  An array [u8; n] is a       *)
(* sequence of n bytes, the element at Rust index i being the (i+1)th.     *)

Zeros(n) == [i \in 1..n |-> 0]

\* the closure of from_mnemonics over a checksum buffer of sixteen bytes
EmitNewShort(n) ==
    [n |-> n, entropy |-> Zeros(n), entropy_writer_pos |-> 0,
     checksum_data |-> Zeros(16), panic |-> FALSE]

\* the closure `emit` of from_mnemonics (entropy.rs:127-134), with what it
\* captures: entropy, entropy_writer_pos, checksum_data
EmitNew(n) ==
    [n |-> n, entropy |-> Zeros(n), entropy_writer_pos |-> 0,
     checksum_data |-> Zeros(256), panic |-> FALSE]

\* emit, writing the checksum bytes one place further
EmitShifted(m, b) ==
    IF m.panic THEN m
    ELSE IF m.entropy_writer_pos >= m.n
    THEN IF m.entropy_writer_pos - m.n + 1 >= Len(m.checksum_data)
         THEN [m EXCEPT !.panic = TRUE]
         ELSE [m EXCEPT !.checksum_data[m.entropy_writer_pos - m.n + 2] = b,
                        !.entropy_writer_pos = @ + 1]
    ELSE [m EXCEPT !.entropy[m.entropy_writer_pos + 1] = b,
                   !.entropy_writer_pos = @ + 1]

Emit(m, b) ==
    IF m.panic THEN m
    ELSE IF m.entropy_writer_pos >= m.n
    THEN IF m.entropy_writer_pos - m.n >= Len(m.checksum_data)
         THEN [m EXCEPT !.panic = TRUE]
         ELSE [m EXCEPT !.checksum_data[m.entropy_writer_pos - m.n + 1] = b,
                        !.entropy_writer_pos = @ + 1]
    ELSE [m EXCEPT !.entropy[m.entropy_writer_pos + 1] = b,
                   !.entropy_writer_pos = @ + 1]

\* the closure `emit` of the test bit_write_by_11 (bits.rs:300-305), with what
\* it captures: bytes = [0; len] and bytes_pos = 0.  It stores as the closure
\* of from_mnemonics stores past the entropy: bytes is checksum_data here,
\* bytes_pos is entropy_writer_pos, and an index past the array panics.
EmitInto(len) ==
    [n |-> 0, entropy |-> <<>>, entropy_writer_pos |-> 0,
     checksum_data |-> Zeros(len), panic |-> FALSE]

\* the bytes a closure has stored so far, in the order of the calls
Emitted(m) ==
    SubSeq(m.entropy \o m.checksum_data, 1, m.entropy_writer_pos)

BitWriterBy11New(writer) == [writer |-> writer, state |-> WriteS0]

RECURSIVE EmitAll(_, _)
EmitAll(m, bytes) ==
    IF bytes = <<>> THEN m ELSE EmitAll(Emit(m, Head(bytes)), Tail(bytes))

\* write, refusing the index 2047
BitWriterWriteStrict(self, e) ==
    IF self.writer.panic THEN self
    ELSE IF ~(e < 2047) THEN [self EXCEPT !.writer.panic = TRUE]
    ELSE LET next == append11(self.state, e) IN
         [writer |-> EmitAll(self.writer, next.bytes), state |-> next.state]

\* write, keeping the low eleven bits of a value that does not fit
BitWriterWriteMasking(self, e) ==
    IF self.writer.panic THEN self
    ELSE LET next == append11(self.state, e % 2048) IN
         [writer |-> EmitAll(self.writer, next.bytes), state |-> next.state]

\* BitWriterBy11::write
BitWriterWrite(self, e) ==
    IF self.writer.panic THEN self
    ELSE IF ~(e < 2048) THEN [self EXCEPT !.writer.panic = TRUE]
    ELSE LET next == append11(self.state, e) IN
         [writer |-> EmitAll(self.writer, next.bytes), state |-> next.state]

\* finalize, emitting the pending bits as they are, not left-justified
BitWriterFinalizeUnshifted(self) ==
    IF self.writer.panic \/ self.state.k = 0 THEN self.writer
    ELSE Emit(self.writer, self.state.c)

\* finalize, emitting a byte of padding when no bit is pending
BitWriterFinalizeAlways(self) ==
    IF self.writer.panic THEN self.writer
    ELSE Emit(self.writer, U8(Shl(self.state.c, 8 - self.state.k)))

\* finalize, leaving the pending bits in the low end of the byte
BitWriterFinalizeLow(self) ==
    IF self.writer.panic \/ self.state.k = 0 THEN self.writer
    ELSE Emit(self.writer, U8(self.state.c))

\* BitWriterBy11::finalize
BitWriterFinalize(self) ==
    IF self.writer.panic \/ self.state.k = 0 THEN self.writer
    ELSE Emit(self.writer, U8(Shl(self.state.c, 8 - self.state.k)))

---------------------------------------------------------------------------
(* src/bits.rs: BitReaderBy11 { buffer, state }, compiled for the tests.   *)
(* An index past the buffer and unreachable!() panic.                      *)

BitReaderBy11New(bytes) == [buffer |-> bytes, state |-> ReadS0, panic |-> FALSE]

ReadPanic(self) == [self |-> [self EXCEPT !.panic = TRUE], r |-> 0]

Rest(buffer, n) == SubSeq(buffer, n + 1, Len(buffer))

\* read, taking the second byte's state for the first symbol's
BitReaderReadStale(self) ==
    IF self.panic \/ Len(self.buffer) < 1 THEN ReadPanic(self)
    ELSE LET next == read8(self.state, self.buffer[1]) IN
         IF next.one
         THEN [self |-> [self EXCEPT !.state = next.state,
                                     !.buffer = Rest(self.buffer, 1)],
               r |-> next.n]
         ELSE IF Len(self.buffer) < 2 THEN ReadPanic(self)
         ELSE LET next2 == read8(next.state, self.buffer[2]) IN
              IF ~next2.one THEN ReadPanic(self)
              ELSE [self |-> [self EXCEPT !.state = next.state,
                                          !.buffer = Rest(self.buffer, 2)],
                    r |-> next2.n]

\* BitReaderBy11::read: the new reader and the value returned
BitReaderRead(self) ==
    IF self.panic \/ Len(self.buffer) < 1 THEN ReadPanic(self)
    ELSE LET next == read8(self.state, self.buffer[1]) IN
         IF next.one
         THEN [self |-> [self EXCEPT !.state = next.state,
                                     !.buffer = Rest(self.buffer, 1)],
               r |-> next.n]
         ELSE IF Len(self.buffer) < 2 THEN ReadPanic(self)
         ELSE LET next2 == read8(next.state, self.buffer[2]) IN
              IF ~next2.one THEN ReadPanic(self)
              ELSE [self |-> [self EXCEPT !.state = next2.state,
                                          !.buffer = Rest(self.buffer, 2)],
                    r |-> next2.n]

---------------------------------------------------------------------------
(* The digest.  Sha256 is cryptoxide's, outside this repository: the model *)
(* takes it as some deterministic function from byte strings to 32 bytes.  *)
(* `sha` picks one function of a family, so that nothing checked rests on  *)
(* one function's values.  Every member agrees with SHA-256 on 16 zero     *)
(* bytes, the input of the documented example (entropy.rs:178-184).        *)

Sha256OfZeros16 ==
    <<55, 71, 8, 255, 247, 113, 157, 213, 151, 158, 200, 117, 213, 108, 210, 40,
      111, 109, 60, 247, 236, 49, 122, 59, 37, 99, 42, 171, 40, 236, 55, 187>>

RECURSIVE Mix(_, _)
Mix(h, bytes) ==
    IF bytes = <<>> THEN h
    ELSE Mix((h * 31 + Head(bytes) * 7 + 11) % 65521, Tail(bytes))

Sha256(s, bytes) ==
    IF bytes = Zeros(16) THEN Sha256OfZeros16
    ELSE LET h == Mix(1 + 977 * s, bytes) IN
         [i \in 1..32 |-> ((h + 1) * (2 * i + 3 + 8 * s) + (h \div 251)) % 256]

\* Entropy::full_checksum_data
full_checksum_data(s, self) == Sha256(s, self)

---------------------------------------------------------------------------
(* src/mnemonics.rs                                                        *)

\* BITS, counting 8 bits a word
BITSBytes(w) == w * 8

\* Mnemonics::<W>::BITS
BITS(w) == w * 11

---------------------------------------------------------------------------
(* src/entropy.rs.  A call returns [kind, ...]: "Ok" with `value`,         *)
(* "InvalidParameters" with its three fields, "ChecksumInvalid", "panic".  *)
(* `hashed`, `steps` and `compared` count what the call computed before it *)
(* returned: digests, transcoder steps, checksum bytes compared.           *)

Ret(kind, value, hashed, steps, compared) ==
    [kind |-> kind, value |-> value, checksum_bits |-> 0, total_bits |-> 0,
     words |-> 0, hashed |-> hashed, steps |-> steps, compared |-> compared]

\* InvalidParameters, with checksum_bits and total_bits exchanged
InvalidParametersSwapped(cs, total_bits, w) ==
    [kind |-> "InvalidParameters", value |-> <<>>, checksum_bits |-> total_bits,
     total_bits |-> cs, words |-> w,
     hashed |-> 0, steps |-> 0, compared |-> 0]

InvalidParameters(cs, total_bits, w) ==
    [kind |-> "InvalidParameters", value |-> <<>>, checksum_bits |-> cs,
     total_bits |-> total_bits, words |-> w,
     hashed |-> 0, steps |-> 0, compared |-> 0]

NoCall == Ret("none", <<>>, 0, 0, 0)

\* the assert, with a limit twice as large
MaxChecksumBitsWide == 2 * 256

\* the limit of `assert!(CS <= 256)` (entropy.rs:110 and 190)
MaxChecksumBits == 256

\* the loop of from_mnemonics over mnemonics.indices(): to_validate.write
RECURSIVE WriteAll(_, _)
WriteAll(to_validate, indices) ==
    IF indices = <<>> THEN to_validate
    ELSE WriteAll(BitWriterWrite(to_validate, Head(indices)), Tail(indices))

\* Mask, comparing the whole last byte
MaskWholeByte(rem) == 255

\* Mask, left in the low bits
MaskLow(rem) == U8(Shl(1, rem) - 1)

\* the mask of the last, partial checksum byte (entropy.rs:158), a u8
Mask(rem) == U8(Shl(Shl(1, rem) - 1, 8 - rem))

\* the loop `while rem > 0` of from_mnemonics (entropy.rs:150-165):
\* [ok, panic, compared]
RECURSIVE CheckLoop(_, _, _, _, _)
CheckLoop(checksum_data, expected_checksum, rem, ofs, compared) ==
    IF rem = 0 THEN [ok |-> TRUE, panic |-> FALSE, compared |-> compared]
    ELSE IF ofs >= Len(checksum_data) \/ ofs >= Len(expected_checksum)
    THEN [ok |-> FALSE, panic |-> TRUE, compared |-> compared]
    ELSE IF rem >= 8
    THEN IF checksum_data[ofs + 1] # expected_checksum[ofs + 1]
         THEN [ok |-> FALSE, panic |-> FALSE, compared |-> compared + 1]
         ELSE CheckLoop(checksum_data, expected_checksum, rem - 8, ofs + 1,
                        compared + 1)
    ELSE LET mask == Mask(rem) IN
         IF BitAnd(checksum_data[ofs + 1], mask)
                # BitAnd(expected_checksum[ofs + 1], mask)
         THEN [ok |-> FALSE, panic |-> FALSE, compared |-> compared + 1]
         ELSE CheckLoop(checksum_data, expected_checksum, 0, ofs + 1,
                        compared + 1)

\* from_mnemonics comparing no checksum
ValidateUnchecked(n, cs, s, m, steps) ==
    IF m.panic THEN Ret("panic", <<>>, 0, steps, 0)
    ELSE Ret("Ok", m.entropy, 1, steps, 0)

\* from_mnemonics after to_validate.finalize() (entropy.rs:141-168): m is
\* what the closure holds
Validate(n, cs, s, m, steps) ==
    IF m.panic THEN Ret("panic", <<>>, 0, steps, 0)
    ELSE LET ret == m.entropy
             expected_checksum == full_checksum_data(s, ret)
         IN
    IF cs > 0
    THEN IF m.entropy_writer_pos < n THEN Ret("panic", <<>>, 1, steps, 0)
         ELSE LET checksum_data ==
                      SubSeq(m.checksum_data, 1, m.entropy_writer_pos - n)
                  chk == CheckLoop(checksum_data, expected_checksum, cs, 0, 0)
              IN
              IF chk.panic THEN Ret("panic", <<>>, 1, steps, chk.compared)
              ELSE IF ~chk.ok
              THEN Ret("ChecksumInvalid", <<>>, 1, steps, chk.compared)
              ELSE Ret("Ok", ret, 1, steps, chk.compared)
    ELSE Ret("Ok", ret, 1, steps, 0)

\* Entropy::<N>::from_mnemonics::<W, CS>
from_mnemonics(n, w, cs, s, indices) ==
    IF ~(cs <= MaxChecksumBits) THEN Ret("panic", <<>>, 0, 0, 0)
    ELSE LET total_bits == n * 8 + cs IN
    IF total_bits # BITS(w) THEN InvalidParameters(cs, total_bits, w)
    ELSE LET to_validate == WriteAll(BitWriterBy11New(EmitNew(n)), indices)
             m == BitWriterFinalize(to_validate)
         IN  Validate(n, cs, s, m, Len(indices) + 1)

\* the loop `while write_pos < W` of to_mnemonics (entropy.rs:208-225):
\* [panic, words, read_pos]
RECURSIVE ReadLoop(_, _, _, _, _, _)
ReadLoop(w, self, checksum, state, read_pos, words) ==
    IF ~(Len(words) < w)
    THEN [panic |-> FALSE, words |-> words, read_pos |-> read_pos]
    ELSE IF read_pos >= Len(self) /\ read_pos - Len(self) >= Len(checksum)
    THEN [panic |-> TRUE, words |-> words, read_pos |-> read_pos]
    ELSE LET next_byte == IF read_pos >= Len(self)
                          THEN checksum[read_pos - Len(self) + 1]
                          ELSE self[read_pos + 1]
             r == read8(state, next_byte)
         IN
         IF ~r.one
         THEN ReadLoop(w, self, checksum, r.state, read_pos + 1, words)
         ELSE IF ~MnemonicIndexNew(r.n).some
         THEN [panic |-> TRUE, words |-> words, read_pos |-> read_pos + 1]
         ELSE ReadLoop(w, self, checksum, r.state, read_pos + 1,
                       Append(words, MnemonicIndexNew(r.n).v))

\* Entropy::<N>::to_mnemonics::<W, CS>
to_mnemonics(n, w, cs, s, self) ==
    IF ~(cs <= MaxChecksumBits) THEN Ret("panic", <<>>, 0, 0, 0)
    ELSE LET total_bits == n * 8 + cs IN
    IF total_bits # BITS(w) THEN InvalidParameters(cs, total_bits, w)
    ELSE LET checksum == full_checksum_data(s, self)
             l == ReadLoop(w, self, checksum, ReadS0, 0, <<>>)
         IN
         IF l.panic THEN Ret("panic", <<>>, 1, l.read_pos, 0)
         ELSE Ret("Ok", l.words, 1, l.read_pos, 0)

---------------------------------------------------------------------------
(* src/dictionary/mod.rs.  A string is a sequence of characters; the       *)
(* characters are the letters 0..Radix-1 and the space.  The 2048 words of *)
(* the model's dictionaries are the two-letter numerals of 0..2047, in     *)
(* increasing order (ordered: true) or in decreasing order (ordered:       *)
(* false), so that `ordered` says whether `words` is sorted, as the test   *)
(* dict_valid requires (mod.rs:203).                                       *)

SP == Radix

Numeral(i) == <<i \div Radix, i % Radix>>

ORDERED == [name |-> "ordered", ordered |-> TRUE]
UNORDERED == [name |-> "unordered", ordered |-> FALSE]

\* self.words[i]
WordsAt(self, i) ==
    IF self.ordered THEN Numeral(i) ELSE Numeral(MAX_MNEMONIC_VALUE - i)

\* Language::separator of DefaultDictionary
separator(self) == <<SP>>

\* the order of str: "lt", "eq" or "gt"
RECURSIVE StrCmp(_, _)
StrCmp(a, b) ==
    IF a = <<>> THEN (IF b = <<>> THEN "eq" ELSE "lt")
    ELSE IF b = <<>> THEN "gt"
    ELSE IF Head(a) < Head(b) THEN "lt"
    ELSE IF Head(a) > Head(b) THEN "gt"
    ELSE StrCmp(Tail(a), Tail(b))

Found(v) == [ok |-> TRUE, v |-> v, word_searched |-> <<>>]
WordNotFound(word) == [ok |-> FALSE, v |-> 0, word_searched |-> word]

\* self.words.binary_search(&word) over words[lo..hi)
RECURSIVE BinarySearch(_, _, _, _)
BinarySearch(self, word, lo, hi) ==
    IF lo >= hi THEN WordNotFound(word)
    ELSE LET mid == lo + (hi - lo) \div 2
             c == StrCmp(WordsAt(self, mid), word)
         IN  IF c = "eq" THEN Found(MnemonicIndexNew(mid).v)
             ELSE IF c = "lt" THEN BinarySearch(self, word, mid + 1, hi)
             ELSE BinarySearch(self, word, lo, mid)

\* self.words.iter().position(|x| x == &word): the first index that matches
Position(self, word) ==
    LET hits == {i \in 0..MAX_MNEMONIC_VALUE : WordsAt(self, i) = word} IN
    IF hits = {} THEN WordNotFound(word)
    ELSE LET v == CHOOSE i \in hits : \A j \in hits : i <= j IN
         Found(MnemonicIndexNew(v).v)

\* DefaultDictionary::lookup_mnemonic
\* lookup_mnemonic reading the flag the wrong way round
lookup_mnemonicUnflagged(self, word) ==
    IF ~self.ordered THEN BinarySearch(self, word, 0, MAX_MNEMONIC_VALUE + 1)
    ELSE Position(self, word)

\* lookup_mnemonic searching all the words but the last
lookup_mnemonicShort(self, word) ==
    IF self.ordered THEN BinarySearch(self, word, 0, MAX_MNEMONIC_VALUE)
    ELSE Position(self, word)

lookup_mnemonic(self, word) ==
    IF self.ordered THEN BinarySearch(self, word, 0, MAX_MNEMONIC_VALUE + 1)
    ELSE Position(self, word)

\* DefaultDictionary::lookup_word
lookup_word(self, mnemonic) == WordsAt(self, mnemonic)

---------------------------------------------------------------------------
(* src/mnemonics.rs: Mnemonics::from_string.                               *)

IsPrefix(p, t) == Len(p) <= Len(t) /\ SubSeq(t, 1, Len(p)) = p

\* split without the piece that follows the last match when it is empty
RECURSIVE SplitFromTerminated(_, _, _)
SplitFromTerminated(rest, sep, cur) ==
    IF rest = <<>> THEN (IF cur = <<>> THEN <<>> ELSE <<cur>>)
    ELSE IF IsPrefix(sep, rest)
    THEN <<cur>> \o SplitFromTerminated(SubSeq(rest, Len(sep) + 1, Len(rest)), sep, <<>>)
    ELSE SplitFromTerminated(Tail(rest), sep, Append(cur, Head(rest)))

\* str::split(sep), sep not empty: the pieces between the matches of sep,
\* found from the left; `cur` is the piece being read
RECURSIVE SplitFrom(_, _, _)
SplitFrom(rest, sep, cur) ==
    IF rest = <<>> THEN <<cur>>
    ELSE IF IsPrefix(sep, rest)
    THEN <<cur>> \o SplitFrom(SubSeq(rest, Len(sep) + 1, Len(rest)), sep, <<>>)
    ELSE SplitFrom(Tail(rest), sep, Append(cur, Head(rest)))

\* split, dropping the empty pieces
SplitSkipEmpty(t, sep) ==
    SelectSeq(SplitFrom(t, sep, <<>>), LAMBDA piece : piece # <<>>)

Split(t, sep) == SplitFrom(t, sep, <<>>)

NoParse ==
    [kind |-> "none", value |-> <<>>, index |-> 0, word_searched |-> <<>>,
     expected_words |-> 0, got_words |-> 0, lookups |-> 0]

\* the loop of from_string over the pieces (mnemonics.rs:104-108)
RECURSIVE ParseLoop(_, _, _, _)
ParseLoop(d, pieces, i, output) ==
    IF i >= Len(pieces)
    THEN [NoParse EXCEPT !.kind = "Ok", !.value = output, !.lookups = i]
    ELSE LET r == lookup_mnemonic(d, pieces[i + 1]) IN
         IF ~r.ok
         THEN [NoParse EXCEPT !.kind = "WordError", !.index = i,
                              !.word_searched = r.word_searched,
                              !.lookups = i + 1]
         ELSE ParseLoop(d, pieces, i + 1, [output EXCEPT ![i + 1] = r.v])

\* Mnemonics::<W>::from_string
from_string(w, d, t) ==
    LET len == Len(Split(t, separator(d))) IN
    IF len = w THEN ParseLoop(d, Split(t, separator(d)), 0, Zeros(w))
    ELSE [NoParse EXCEPT !.kind = "InvalidWords", !.expected_words = w,
                         !.got_words = len]

\* to_word looking the index up in the sorted list whatever the dictionary
to_wordSorted(self, dict) == lookup_word(ORDERED, self)

\* MnemonicIndex::to_word
to_word(self, dict) == lookup_word(dict, self)

\* the loop of to_string with the separator pushed before every word
RECURSIVE ToStringLoopEvery(_, _, _, _)
ToStringLoopEvery(self, dict, i, out) ==
    IF i >= Len(self) THEN out
    ELSE ToStringLoopEvery(self, dict, i + 1,
             (out \o separator(dict)) \o to_word(self[i + 1], dict))

\* the loop of to_string over self.0.iter().enumerate() (mnemonics.rs:83-90)
RECURSIVE ToStringLoop(_, _, _, _)
ToStringLoop(self, dict, i, out) ==
    IF i >= Len(self) THEN out
    ELSE ToStringLoop(self, dict, i + 1,
             (IF i > 0 THEN out \o separator(dict) ELSE out)
                 \o to_word(self[i + 1], dict))

\* Mnemonics::<W>::to_string
to_string(self, dict) == ToStringLoop(self, dict, 0, <<>>)

---------------------------------------------------------------------------
(* The callers of the conversions: the values they pass in.                *)

\* the documented example: Entropy::<16>, to_mnemonics::<12, 4> (entropy.rs:178-181)
ScenarioN == 16
ScenarioW == 12
ScenarioCS == 4

\* the sizes that fit around the limit of CS: BigW words hold no entropy and
\* BigCS checksum bits, or one byte of entropy and BigCS - 8 checksum bits
BigW == 24
BigCS == 11 * BigW

\* checksum sizes tried with every (N, W), besides the one that fits
CSSamples == {0, 4, 256, 257}

Params ==
    {t \in [N : 0..MaxN, W : 0..MaxW, CS : 0..(11 * MaxW) \cup CSSamples] :
        t.CS \in CSSamples \/ t.N * 8 + t.CS = t.W * 11}
    \cup {[N |-> ScenarioN, W |-> ScenarioW, CS |-> ScenarioCS],
          [N |-> 0, W |-> BigW, CS |-> BigCS],
          [N |-> 1, W |-> BigW, CS |-> BigCS - 8]}

\* the p-th entropy value of n bytes: all zero, all ones, then mixed bytes
EntropyOf(n, p) ==
    [i \in 1..n |->
        IF p = 0 THEN 0
        ELSE IF p = 1 THEN 255
        ELSE (p * (13 * i * i + 7 * i + 35)) % 256]

\* the q-th phrase of w words a caller may hold: every index in 0..2047
PhraseOf(w, q) ==
    [i \in 1..w |->
        IF q = 0 THEN 0
        ELSE IF q = 1 THEN 2047
        ELSE (q * (211 * i * i + 97 * i + 1029)) % 2048]

\* `indices` with bit b of its W*11-bit stream flipped (bit 0 is the most
\* significant bit of the first index)
FlipBit(indices, b) ==
    LET i == (b \div 11) + 1
        weight == Pow2(10 - (b % 11))
    IN  [indices EXCEPT ![i] = IF (@ \div weight) % 2 = 1 THEN @ - weight
                                 ELSE @ + weight]

Origin(kind, bit) == [kind |-> kind, bit |-> bit]

\* the parts of the state a caller does not use
Uncalled == [called |-> FALSE, ret |-> <<>>]
Returned(ret) == [called |-> TRUE, ret |-> ret]
StepOf(op, before, input, out, ref) ==
    [op |-> op, before |-> before, input |-> input, out |-> out, ref |-> ref]
NoStep == StepOf("none", WriteS0, 0, <<>>, <<>>)
IndexIdle == raw = 0 /\ made = Uncalled
DictIdle == held = 0 /\ found = Uncalled
BitsIdle ==
    symbols = <<>> /\ bw = <<>> /\ rd = <<>> /\ br = <<>>
    /\ bpc = [op |-> "idle", i |-> 0]
StepIdle ==
    wstate = WriteS0 /\ wacc = <<>> /\ rstate = ReadS0 /\ racc = <<>> /\ step = NoStep
PairIdle == insts = <<>>


Init ==
    /\ \E t \in Params : N = t.N /\ W = t.W /\ CS = t.CS
    /\ sha \in 0..MaxSha
    /\ \E p \in 0..MaxPattern : entropy = EntropyOf(N, p)
    /\ mnemonics = <<>>
    /\ origin = Origin("none", 0)
    /\ enc = NoCall
    /\ dec = NoCall
    /\ pc = "start"
    /\ dic = ORDERED
    /\ text = <<>>
    /\ parsed = NoParse
    /\ IndexIdle /\ DictIdle /\ BitsIdle /\ StepIdle
    /\ PairIdle

\* the caller converts its entropy: entropy.to_mnemonics::<W, CS>()
ToMnemonics ==
    /\ pc = "start"
    /\ enc' = to_mnemonics(N, W, CS, sha, entropy)
    /\ mnemonics' = enc'.value
    /\ origin' = Origin("to_mnemonics", 0)
    /\ pc' = IF enc'.kind = "Ok" THEN "encoded" ELSE "done"
    /\ UNCHANGED <<N, W, CS, sha, entropy, dec, dic, text, parsed>>
    /\ UNCHANGED <<indexVars, dictVars, bitsVars, stepVars>>
    /\ UNCHANGED pairVars

\* one bit of the phrase is corrupted on its way back
Flip ==
    /\ pc = "encoded"
    /\ \E b \in 0..(BITS(W) - 1) :
          /\ mnemonics' = FlipBit(mnemonics, b)
          /\ origin' = Origin("flip", b)
    /\ pc' = "held"
    /\ UNCHANGED <<N, W, CS, sha, entropy, enc, dec, dic, text, parsed>>
    /\ UNCHANGED <<indexVars, dictVars, bitsVars, stepVars>>
    /\ UNCHANGED pairVars

\* the last word of the documented example's phrase is replaced by another
ReplaceLast ==
    /\ pc = "encoded"
    /\ N = ScenarioN /\ W = ScenarioW /\ CS = ScenarioCS
    /\ entropy = Zeros(ScenarioN)
    /\ \E x \in 0..MAX_MNEMONIC_VALUE :
          /\ x # mnemonics[W]
          /\ mnemonics' = [mnemonics EXCEPT ![W] = x]
          /\ origin' = Origin("replace", x)
    /\ pc' = "held"
    /\ UNCHANGED <<N, W, CS, sha, entropy, enc, dec, dic, text, parsed>>
    /\ UNCHANGED <<indexVars, dictVars, bitsVars, stepVars>>
    /\ UNCHANGED pairVars

\* the caller holds a phrase of its own
Given ==
    /\ pc = "start"
    /\ \E q \in 0..MaxGiven :
          /\ mnemonics' = PhraseOf(W, q)
          /\ origin' = Origin("given", q)
    /\ pc' = "held"
    /\ UNCHANGED <<N, W, CS, sha, entropy, enc, dec, dic, text, parsed>>
    /\ UNCHANGED <<indexVars, dictVars, bitsVars, stepVars>>
    /\ UNCHANGED pairVars

\* from_mnemonics taking the phrase by value: it is gone after the call
FromMnemonicsTaking ==
    /\ pc \in {"encoded", "held"}
    /\ dec' = from_mnemonics(N, W, CS, sha, mnemonics)
    /\ mnemonics' = <<>>
    /\ pc' = "done"
    /\ UNCHANGED <<N, W, CS, sha, entropy, origin, enc, dic, text, parsed>>
    /\ UNCHANGED <<indexVars, dictVars, bitsVars, stepVars, pairVars>>

\* the caller converts the phrase it holds: Entropy::<N>::from_mnemonics::<W, CS>
FromMnemonics ==
    /\ pc \in {"encoded", "held"}
    /\ dec' = from_mnemonics(N, W, CS, sha, mnemonics)
    /\ pc' = "done"
    /\ UNCHANGED <<N, W, CS, sha, entropy, mnemonics, origin, enc, dic, text, parsed>>
    /\ UNCHANGED <<indexVars, dictVars, bitsVars, stepVars>>
    /\ UNCHANGED pairVars

Next == ToMnemonics \/ Flip \/ ReplaceLast \/ Given \/ FromMnemonics

Spec == Init /\ [][Next]_vars

---------------------------------------------------------------------------
(* Callers that go on after a conversion: they convert back what they got, *)
(* call again with the same arguments, hold a phrase they parsed from a    *)
(* text, or one they built from indices of their own making.               *)

\* the largest entropy of these callers, the documented example apart
MaxAgainN == 3

\* values a caller can put in the public field of a MnemonicIndex
Unchecked == {MAX_MNEMONIC_VALUE + 1, 2 * MAX_MNEMONIC_VALUE + 1, Pow2(16) - 1}

InitAgain ==
    /\ Init
    /\ \/ N <= MaxAgainN /\ W <= MaxAgainN
       \/ N = ScenarioN /\ W = ScenarioW /\ CS = ScenarioCS

\* Mnemonics::from([.., MnemonicIndex(x), ..]) with x never checked
\* (index.rs:13, mnemonics.rs:29-33)
Forge ==
    /\ pc = "start" /\ W > 0
    /\ \E q \in 0..MaxGiven, k \in {1, W}, x \in Unchecked :
          /\ mnemonics' = [PhraseOf(W, q) EXCEPT ![k] = x]
          /\ origin' = Origin("forged", x)
    /\ pc' = "held"
    /\ UNCHANGED <<N, W, CS, sha, entropy, enc, dec, dic, text, parsed>>
    /\ UNCHANGED <<indexVars, dictVars, bitsVars, stepVars, pairVars>>

\* the caller parses a text of W words: Mnemonics::<W>::from_string(&dic, text)
Parse ==
    /\ pc = "start"
    /\ \E q \in 0..MaxGiven :
          /\ text' = to_string(PhraseOf(W, q), dic)
          /\ origin' = Origin("from_string", q)
    /\ parsed' = from_string(W, dic, text')
    /\ mnemonics' = parsed'.value
    /\ pc' = IF parsed'.kind = "Ok" THEN "held" ELSE "done"
    /\ UNCHANGED <<N, W, CS, sha, entropy, enc, dec, dic>>
    /\ UNCHANGED <<indexVars, dictVars, bitsVars, stepVars, pairVars>>

\* the caller converts the entropy it decoded: e.to_mnemonics::<W, CS>()
ToMnemonicsBack ==
    /\ pc = "done" /\ dec.kind = "Ok"
    /\ enc' = to_mnemonics(N, W, CS, sha, dec.value)
    /\ pc' = "back"
    /\ UNCHANGED <<N, W, CS, sha, entropy, mnemonics, origin, dec, dic, text, parsed>>
    /\ UNCHANGED <<indexVars, dictVars, bitsVars, stepVars, pairVars>>

\* the caller calls entropy.to_mnemonics::<W, CS>() once more
ToMnemonicsAgain ==
    /\ pc = "done" /\ enc.kind \notin {"none", "panic"}
    /\ enc' = to_mnemonics(N, W, CS, sha, entropy)
    /\ pc' = "again"
    /\ UNCHANGED <<N, W, CS, sha, entropy, mnemonics, origin, dec, dic, text, parsed>>
    /\ UNCHANGED <<indexVars, dictVars, bitsVars, stepVars, pairVars>>

\* the caller calls from_mnemonics on the phrase it holds once more
FromMnemonicsAgain ==
    /\ pc = "done" /\ dec.kind \notin {"none", "panic"}
    /\ dec' = from_mnemonics(N, W, CS, sha, mnemonics)
    /\ pc' = "again"
    /\ UNCHANGED <<N, W, CS, sha, entropy, mnemonics, origin, enc, dic, text, parsed>>
    /\ UNCHANGED <<indexVars, dictVars, bitsVars, stepVars, pairVars>>

NextAgain ==
    \/ ToMnemonics \/ Flip \/ ReplaceLast \/ Given \/ FromMnemonics
    \/ Forge \/ Parse \/ ToMnemonicsBack \/ ToMnemonicsAgain \/ FromMnemonicsAgain

SpecAgain == InitAgain /\ [][NextAgain]_vars

---------------------------------------------------------------------------
(* The callers of from_string: the strings they pass in.                   *)

TextChars == {0, 1, Radix - 1, SP}

Texts == UNION {[1..n -> TextChars] : n \in 0..MaxTextLen}

\* k times the word of index 0, joined by spaces: the documented phrase
\* (mnemonics.rs, entropy.rs:93) without its last words
RECURSIVE Abandons(_)
Abandons(k) ==
    IF k = 0 THEN <<>>
    ELSE IF k = 1 THEN Numeral(0)
    ELSE Abandons(k - 1) \o <<SP>> \o Numeral(0)

InitString ==
    /\ N = 0 /\ CS = 0 /\ sha = 0 /\ entropy = <<>>
    /\ origin = Origin("none", 0) /\ enc = NoCall /\ dec = NoCall
    /\ dic \in {ORDERED, UNORDERED}
    /\ \/ /\ pc = "text" /\ mnemonics = <<>>
          /\ \/ W \in 0..MaxTextW /\ text \in Texts
             \/ W = ScenarioW /\ \E k \in 1..ScenarioW :
                    text = Abandons(k) \o <<SP>> \o Numeral(3)
       \/ /\ pc = "indices" /\ text = <<>>
          /\ W \in (0..MaxTextW) \cup {ScenarioW}
          /\ \/ \E q \in 0..MaxGiven : mnemonics = PhraseOf(W, q)
             \/ W = 1 /\ \E x \in 0..MAX_MNEMONIC_VALUE : mnemonics = <<x>>
    /\ parsed = NoParse
    /\ IndexIdle /\ DictIdle /\ BitsIdle /\ StepIdle
    /\ PairIdle

\* the caller parses its string: Mnemonics::<W>::from_string(&dic, text)
FromString ==
    /\ pc \in {"text", "rendered"}
    /\ parsed' = from_string(W, dic, text)
    /\ mnemonics' = parsed'.value
    /\ pc' = "parsed"
    /\ UNCHANGED <<N, W, CS, sha, entropy, origin, enc, dec, dic, text>>
    /\ UNCHANGED <<indexVars, dictVars, bitsVars, stepVars>>
    /\ UNCHANGED pairVars

\* the caller renders the indices it holds: mnemonics.to_string(&dic)
ToString ==
    /\ pc = "indices"
    /\ text' = to_string(mnemonics, dic)
    /\ pc' = "rendered"
    /\ UNCHANGED <<N, W, CS, sha, entropy, mnemonics, origin, enc, dec, dic, parsed>>
    /\ UNCHANGED <<indexVars, dictVars, bitsVars, stepVars>>
    /\ UNCHANGED pairVars

NextString == FromString \/ ToString

SpecString == InitString /\ [][NextString]_vars

---------------------------------------------------------------------------
(* A caller of MnemonicIndex::new with any u16.                            *)

ConvIdle ==
    /\ N = 0 /\ W = 0 /\ CS = 0 /\ sha = 0 /\ entropy = <<>> /\ mnemonics = <<>>
    /\ origin = Origin("none", 0) /\ enc = NoCall /\ dec = NoCall
    /\ pc = "idle" /\ dic = ORDERED /\ text = <<>> /\ parsed = NoParse

InitIndex ==
    /\ raw \in 0..(Pow2(16) - 1)
    /\ made = Uncalled
    /\ ConvIdle /\ DictIdle /\ BitsIdle /\ StepIdle
    /\ PairIdle

\* MnemonicIndex::new(raw)
New ==
    /\ ~made.called
    /\ made' = Returned(MnemonicIndexNew(raw))
    /\ UNCHANGED <<raw, convVars, dictVars, bitsVars, stepVars>>
    /\ UNCHANGED pairVars

NextIndex == New

SpecIndex == InitIndex /\ [][NextIndex]_vars

---------------------------------------------------------------------------
(* A caller that looks an index's word up and the word's index back.        *)

InitDict ==
    /\ held \in 0..MAX_MNEMONIC_VALUE
    /\ found = Uncalled
    /\ N = 0 /\ W = 0 /\ CS = 0 /\ sha = 0 /\ entropy = <<>> /\ mnemonics = <<>>
    /\ origin = Origin("none", 0) /\ enc = NoCall /\ dec = NoCall
    /\ pc = "idle" /\ dic \in {ORDERED, UNORDERED} /\ text = <<>>
    /\ parsed = NoParse
    /\ IndexIdle /\ BitsIdle /\ StepIdle
    /\ PairIdle

\* dic.lookup_word(MnemonicIndex(held))
LookupWord ==
    /\ pc = "idle"
    /\ text' = lookup_word(dic, held)
    /\ pc' = "word"
    /\ UNCHANGED <<N, W, CS, sha, entropy, mnemonics, origin, enc, dec, dic, parsed>>
    /\ UNCHANGED <<indexVars, dictVars, bitsVars, stepVars>>
    /\ UNCHANGED pairVars

\* dic.lookup_mnemonic(text)
LookupMnemonic ==
    /\ pc = "word"
    /\ found' = Returned(lookup_mnemonic(dic, text))
    /\ pc' = "index"
    /\ UNCHANGED <<N, W, CS, sha, entropy, mnemonics, origin, enc, dec, dic, text, parsed>>
    /\ UNCHANGED <<held, indexVars, bitsVars, stepVars>>
    /\ UNCHANGED pairVars

NextDict == LookupWord \/ LookupMnemonic

SpecDict == InitDict /\ [][NextDict]_vars

---------------------------------------------------------------------------
(* A caller of the transcoder, as the tests of bits.rs are: it writes its  *)
(* values, finalizes, and reads the bytes back byte by byte through a      *)
(* ReadState and value by value through a BitReaderBy11.                   *)

\* the longest sequence written and the room of the caller's byte array
MaxSymbols == 16
Room == 2 * MaxSymbols + 1

\* WORDS of the tests (bits.rs:254-271), cut or continued to k values
WORDS(k) == [i \in 1..k |-> IF i <= 8 THEN 1 ELSE 1025]

\* BYTES of the tests (bits.rs:273-296)
BYTES ==
    <<0, 32, 4, 0, 128, 16, 2, 0, 64, 8, 1,
      128, 48, 6, 0, 192, 24, 3, 0, 96, 12, 1>>

At(op, i) == [op |-> op, i |-> i]

InitBits ==
    /\ \E k \in 0..MaxSymbols :
           symbols \in {WORDS(k)} \cup {PhraseOf(k, q) : q \in 0..MaxPattern}
    /\ bw = BitWriterBy11New(EmitInto(Room))
    /\ rd = <<>> /\ br = <<>>
    /\ bpc = At("write", 0)
    /\ ConvIdle /\ IndexIdle /\ DictIdle /\ StepIdle
    /\ PairIdle

\* writer.write(symbols[i]) (bits.rs:307-309)
Write ==
    /\ bpc.op = "write" /\ bpc.i < Len(symbols)
    /\ bw' = BitWriterWrite(bw, symbols[bpc.i + 1])
    /\ bpc' = At("write", bpc.i + 1)
    /\ UNCHANGED <<symbols, rd, br, convVars, indexVars, dictVars, stepVars>>
    /\ UNCHANGED pairVars

\* writer.finalize() (bits.rs:310); the bytes stored go to the readers
Finalize ==
    /\ bpc.op = "write" /\ bpc.i = Len(symbols)
    /\ bw' = [bw EXCEPT !.writer = BitWriterFinalize(bw)]
    /\ rd' = [state |-> ReadS0, pos |-> 0, out |-> <<>>]
    /\ br' = [reader |-> BitReaderBy11New(Emitted(bw'.writer)), out |-> <<>>]
    /\ bpc' = At("read", 0)
    /\ UNCHANGED <<symbols, convVars, indexVars, dictVars, stepVars>>
    /\ UNCHANGED pairVars

\* the next byte goes through ReadState::read8, as in to_mnemonics
Read8 ==
    /\ bpc.op = "read" /\ rd.pos < Len(Emitted(bw.writer))
    /\ LET next == read8(rd.state, Emitted(bw.writer)[rd.pos + 1]) IN
       rd' = [state |-> next.state, pos |-> rd.pos + 1,
              out |-> IF next.one THEN Append(rd.out, next.n) ELSE rd.out]
    /\ UNCHANGED <<symbols, bw, br, bpc, convVars, indexVars, dictVars, stepVars>>
    /\ UNCHANGED pairVars

\* reader.read(), once for every value written (bits.rs:319-322)
Read ==
    /\ bpc.op = "read" /\ Len(br.out) < Len(symbols) /\ ~br.reader.panic
    /\ LET ret == BitReaderRead(br.reader) IN
       br' = [reader |-> ret.self,
              out |-> IF ret.self.panic THEN br.out ELSE Append(br.out, ret.r)]
    /\ UNCHANGED <<symbols, bw, rd, bpc, convVars, indexVars, dictVars, stepVars>>
    /\ UNCHANGED pairVars

NextBits == Write \/ Finalize \/ Read8 \/ Read

SpecBits == InitBits /\ [][NextBits]_vars

---------------------------------------------------------------------------
(* The packing and the unpacking as an accumulator and a count of its      *)
(* valid low bits: push `width` bits, then take `unit` bits off the top    *)
(* while the count allows.  `acc` keeps the valid bits only.               *)

AccNew == [acc |-> 0, count |-> 0]

RECURSIVE AccDrain(_, _, _)
AccDrain(a, unit, out) ==
    IF a.count >= unit
    THEN AccDrain([acc |-> a.acc % Pow2(a.count - unit), count |-> a.count - unit],
                  unit,
                  Append(out, (a.acc \div Pow2(a.count - unit)) % Pow2(unit)))
    ELSE [next |-> a, out |-> out]

AccPush(a, value, width, unit) ==
    AccDrain([acc |-> a.acc * Pow2(width) + value, count |-> a.count + width],
             unit, <<>>)

AccAppend11(a, e) == AccPush(a, e, 11, 8)

AccRead8(a, v) == AccPush(a, v, 8, 11)

AccFinalize(a) ==
    IF a.count = 0 THEN <<>> ELSE <<(a.acc * Pow2(8 - a.count)) % 256>>

---------------------------------------------------------------------------
(* The two state machines step by step, from S0, with the accumulators     *)
(* beside them.  The values written and the bytes read are the small ones, *)
(* which lead to every pending value, and the patterns of one bit set, one *)
(* bit clear, all bits set and alternate bits.  `step` keeps the last      *)
(* step only, until its output is taken away: the bytes and the symbols of *)
(* the steps before it are not kept.                                       *)

\* the largest of the small values written and of the small bytes read
LowSymbols == 127
LowBytes == 15

\* the patterns of `width` bits
Patterns(width) ==
    {0, Pow2(width) - 1, (Pow2(width) - 1) \div 3, (2 * (Pow2(width) - 1)) \div 3}
        \cup {Pow2(j) : j \in 0..(width - 1)}
        \cup {Pow2(width) - 1 - Pow2(j) : j \in 0..(width - 1)}

StepSymbols == (0..LowSymbols) \cup Patterns(11)
StepBytes == (0..LowBytes) \cup Patterns(8)

\* a BitWriterBy11 in `state` whose closure has room for the bytes of a step
BitWriterOver(state) == [writer |-> EmitInto(2), state |-> state]

InitStep ==
    /\ wstate = WriteS0 /\ wacc = AccNew
    /\ rstate = ReadS0 /\ racc = AccNew
    /\ step \in {StepOf(op, WriteS0, 0, <<>>, <<>>) : op \in {"writer", "reader"}}
    /\ ConvIdle /\ IndexIdle /\ DictIdle /\ BitsIdle
    /\ PairIdle

\* writer.write(e)
StepWrite ==
    /\ step.op = "writer"
    /\ \E e \in StepSymbols :
           LET next == BitWriterWrite(BitWriterOver(wstate), e)
               acc == AccAppend11(wacc, e)
           IN /\ wstate' = next.state
              /\ wacc' = acc.next
              /\ step' = StepOf("write", wstate, e,
                                IF next.writer.panic THEN <<"panic">>
                                ELSE Emitted(next.writer), acc.out)
    /\ UNCHANGED <<rstate, racc, convVars, indexVars, dictVars, bitsVars>>
    /\ UNCHANGED pairVars

\* writer.finalize(): the writer is consumed
StepFinalize ==
    /\ step.op = "writer"
    /\ LET writer == BitWriterFinalize(BitWriterOver(wstate)) IN
       step' = StepOf("finalize", wstate, 0,
                      IF writer.panic THEN <<"panic">> ELSE Emitted(writer),
                      AccFinalize(wacc))
    /\ UNCHANGED <<wstate, wacc, rstate, racc>>
    /\ UNCHANGED <<convVars, indexVars, dictVars, bitsVars>>
    /\ UNCHANGED pairVars

\* state.read8(v)
StepRead8 ==
    /\ step.op = "reader"
    /\ \E v \in StepBytes :
           LET next == read8(rstate, v)
               acc == AccRead8(racc, v)
           IN /\ rstate' = next.state
              /\ racc' = acc.next
              /\ step' = StepOf("read", rstate, v,
                                IF next.one THEN <<next.n>> ELSE <<>>, acc.out)
    /\ UNCHANGED <<wstate, wacc, convVars, indexVars, dictVars, bitsVars>>
    /\ UNCHANGED pairVars

\* the output of the step goes where the caller puts it: the closure stores
\* the bytes (entropy.rs:127-134), the loop of to_mnemonics the symbol
\* (entropy.rs:208-225)
Take ==
    /\ step.op \in {"write", "read"}
    /\ step' = StepOf(IF step.op = "write" THEN "writer" ELSE "reader",
                      WriteS0, 0, <<>>, <<>>)
    /\ UNCHANGED <<wstate, wacc, rstate, racc>>
    /\ UNCHANGED <<convVars, indexVars, dictVars, bitsVars>>
    /\ UNCHANGED pairVars

NextStep == StepWrite \/ StepFinalize \/ StepRead8 \/ Take

SpecStep == InitStep /\ [][NextStep]_vars

---------------------------------------------------------------------------
(* Two conversions in progress at once, as two threads run them: each has  *)
(* its const generics, its argument and its own locals, and takes one step *)
(* of its loop at a time.                                                   *)

\* a call of Entropy::<N>::from_mnemonics::<W, CS>(&indices), not yet entered
FromCall(n, w, cs, s, indices) ==
    [fn |-> "from_mnemonics", n |-> n, w |-> w, cs |-> cs, s |-> s,
     arg |-> indices, at |-> "entry", ret |-> NoCall,
     to_validate |-> <<>>, i |-> 0]

\* a call of self.to_mnemonics::<W, CS>(), not yet entered
ToCall(n, w, cs, s, self) ==
    [fn |-> "to_mnemonics", n |-> n, w |-> w, cs |-> cs, s |-> s,
     arg |-> self, at |-> "entry", ret |-> NoCall,
     checksum |-> <<>>, state |-> ReadS0, read_pos |-> 0, words |-> <<>>]

Return(c, ret) == [c EXCEPT !.at = "done", !.ret = ret]

\* the assert and the check of the sizes that open both conversions
\* (entropy.rs:110-119, 190-198); `locals` is the call with its locals set
Enter(c, locals) ==
    IF ~(c.cs <= MaxChecksumBits) THEN Return(c, Ret("panic", <<>>, 0, 0, 0))
    ELSE IF c.n * 8 + c.cs # BITS(c.w)
    THEN Return(c, InvalidParameters(c.cs, c.n * 8 + c.cs, c.w))
    ELSE [locals EXCEPT !.at = "loop"]

\* one step of from_mnemonics: the entry, one to_validate.write(mnemonic.0)
\* (entropy.rs:136-138), or finalize and all that follows it
FromStep(c) ==
    IF c.at = "entry"
    THEN Enter(c, [c EXCEPT !.to_validate = BitWriterBy11New(EmitNew(c.n))])
    ELSE IF c.i < Len(c.arg)
    THEN LET next == BitWriterWrite(c.to_validate, c.arg[c.i + 1]) IN
         IF next.writer.panic
         THEN Return([c EXCEPT !.to_validate = next],
                     Ret("panic", <<>>, 0, Len(c.arg) + 1, 0))
         ELSE [c EXCEPT !.to_validate = next, !.i = @ + 1]
    ELSE LET m == BitWriterFinalize(c.to_validate) IN
         Return([c EXCEPT !.to_validate.writer = m],
                Validate(c.n, c.cs, c.s, m, Len(c.arg) + 1))

\* one step of to_mnemonics: the entry, one turn of `while write_pos < W`
\* (entropy.rs:208-225), or the return
ToStep(c) ==
    IF c.at = "entry"
    THEN Enter(c, [c EXCEPT !.checksum = full_checksum_data(c.s, c.arg)])
    ELSE IF ~(Len(c.words) < c.w)
    THEN Return(c, Ret("Ok", c.words, 1, c.read_pos, 0))
    ELSE IF c.read_pos >= c.n /\ c.read_pos - c.n >= Len(c.checksum)
    THEN Return(c, Ret("panic", <<>>, 1, c.read_pos, 0))
    ELSE LET next_byte == IF c.read_pos >= c.n
                          THEN c.checksum[c.read_pos - c.n + 1]
                          ELSE c.arg[c.read_pos + 1]
             r == read8(c.state, next_byte)
         IN
         IF ~r.one
         THEN [c EXCEPT !.state = r.state, !.read_pos = @ + 1]
         ELSE IF ~MnemonicIndexNew(r.n).some
         THEN Return([c EXCEPT !.read_pos = @ + 1],
                     Ret("panic", <<>>, 1, c.read_pos + 1, 0))
         ELSE [c EXCEPT !.state = r.state, !.read_pos = @ + 1,
                        !.words = Append(@, MnemonicIndexNew(r.n).v)]

\* the sizes of the conversions in progress: small ones, the documented
\* example, and the largest checksum
PairParams ==
    {<<1, 1, 3>>, <<2, 2, 6>>, <<4, 3, 1>>,
     <<ScenarioN, ScenarioW, ScenarioCS>>, <<1, BigW, BigCS - 8>>}

\* the calls over sizes t with digest s: of to_mnemonics on an entropy value,
\* of from_mnemonics on the phrase of that value and on a phrase of its own
CallsOf(t, s) ==
    {ToCall(t[1], t[2], t[3], s, EntropyOf(t[1], 2)),
     FromCall(t[1], t[2], t[3], s,
              to_mnemonics(t[1], t[2], t[3], s, EntropyOf(t[1], 2)).value),
     FromCall(t[1], t[2], t[3], s, PhraseOf(t[2], 2))}

InitPair ==
    /\ \E t1 \in PairParams, t2 \in PairParams, s1 \in 0..MaxSha :
          \E c1 \in CallsOf(t1, s1), c2 \in CallsOf(t2, 0) :
              insts = <<c1, c2>>
    /\ ConvIdle /\ IndexIdle /\ DictIdle /\ BitsIdle /\ StepIdle

\* one set of locals for all the conversions
PutShared(i, c) == [j \in DOMAIN insts |-> c]

\* the insts with the i-th replaced by c: nothing else is shared
Put(i, c) == [insts EXCEPT ![i] = c]

\* instance i takes a step of from_mnemonics
StepFrom(i) ==
    /\ insts[i].fn = "from_mnemonics" /\ insts[i].at # "done"
    /\ insts' = Put(i, FromStep(insts[i]))
    /\ UNCHANGED <<convVars, indexVars, dictVars, bitsVars, stepVars>>

\* instance i takes a step of to_mnemonics
StepTo(i) ==
    /\ insts[i].fn = "to_mnemonics" /\ insts[i].at # "done"
    /\ insts' = Put(i, ToStep(insts[i]))
    /\ UNCHANGED <<convVars, indexVars, dictVars, bitsVars, stepVars>>

NextPair == \E i \in 1..2 : StepFrom(i) \/ StepTo(i)

SpecPair == InitPair /\ [][NextPair]_vars

---------------------------------------------------------------------------
(* One to_mnemonics in progress, on a thread that runs: while the          *)
(* conversion can take a step it does take it.                             *)

InitLoop ==
    /\ \E t \in PairParams, s \in 0..MaxSha, p \in 0..MaxPattern :
          insts = <<ToCall(t[1], t[2], t[3], s, EntropyOf(t[1], p))>>
    /\ ConvIdle /\ IndexIdle /\ DictIdle /\ BitsIdle /\ StepIdle

NextLoop == StepTo(1)

SpecLoop == InitLoop /\ [][NextLoop]_vars /\ WF_vars(NextLoop)

---------------------------------------------------------------------------
(* What the claims speak of: the bit streams, most significant bit first.  *)

RECURSIVE BitsOf(_, _)
BitsOf(v, width) ==
    IF width = 0 THEN <<>> ELSE Append(BitsOf(v \div 2, width - 1), v % 2)

RECURSIVE StreamOf(_, _)
StreamOf(values, width) ==
    IF values = <<>> THEN <<>>
    ELSE BitsOf(Head(values), width) \o StreamOf(Tail(values), width)

RECURSIVE ValueOf(_)
ValueOf(bits) ==
    IF bits = <<>> THEN 0
    ELSE 2 * ValueOf(SubSeq(bits, 1, Len(bits) - 1)) + bits[Len(bits)]

BytesOf(bits, n) == [i \in 1..n |-> ValueOf(SubSeq(bits, 8 * i - 7, 8 * i))]

SizesFit == N * 8 + CS = W * 11

Called(r) == r.kind # "none"

\* the entropy bits and the checksum bits of the phrase the caller holds
PhraseBits == StreamOf(mnemonics, 11)
PhraseEntropy == BytesOf(PhraseBits, N)
PhraseChecksum == SubSeq(PhraseBits, N * 8 + 1, N * 8 + CS)
DigestBits(bytes) == SubSeq(StreamOf(full_checksum_data(sha, bytes), 8), 1, CS)

---------------------------------------------------------------------------
(* C1..C10                                                                 *)

\* C1 as stated: whenever N*8 + CS = W*11, to_mnemonics returns Ok and
\* from_mnemonics of its phrase returns Ok with the original bytes.
C1_RoundTripAnyCS ==
    SizesFit =>
        /\ Called(enc) => enc.kind = "Ok"
        /\ (origin.kind = "to_mnemonics" /\ Called(dec))
               => (dec.kind = "Ok" /\ dec.value = entropy)

\* C1, amended: for all (N, W, CS) with N*8 + CS = W*11 and CS <= 256 and
\* every entropy e, to_mnemonics returns Ok and from_mnemonics of its phrase
\* returns Ok with exactly the bytes of e.
C1_RoundTrip ==
    (SizesFit /\ CS <= 256) =>
        /\ Called(enc) => (enc.kind = "Ok" /\ Len(enc.value) = W)
        /\ (origin.kind = "to_mnemonics" /\ Called(dec))
               => (dec.kind = "Ok" /\ dec.value = entropy)

C1_Witness ==
    /\ origin.kind = "to_mnemonics" /\ dec.kind = "Ok" /\ dec.value = entropy
    /\ N > 4 /\ CS % 8 # 0 /\ CS > 8
    /\ \E i \in 1..N : entropy[i] \notin {0, 255}

\* C2 as stated: whenever N*8 + CS # W*11, both conversions fail with
\* InvalidParameters, before any other computation.
C2_RejectsAnyCS ==
    ~SizesFit =>
        /\ Called(enc) => (enc.kind = "InvalidParameters"
                           /\ enc.hashed = 0 /\ enc.steps = 0)
        /\ Called(dec) => (dec.kind = "InvalidParameters"
                           /\ dec.hashed = 0 /\ dec.steps = 0 /\ dec.compared = 0)

\* C2, amended: for every (N, W, CS) with CS <= 256 and N*8 + CS # W*11, both
\* to_mnemonics and from_mnemonics fail with InvalidParameters, and nothing
\* (no digest, no transcoder step, no comparison) is computed before.
C2_Rejects ==
    (~SizesFit /\ CS <= 256) =>
        /\ Called(enc) => (enc.kind = "InvalidParameters"
                           /\ enc.hashed = 0 /\ enc.steps = 0)
        /\ Called(dec) => (dec.kind = "InvalidParameters"
                           /\ dec.hashed = 0 /\ dec.steps = 0 /\ dec.compared = 0)

C2_Witness ==
    /\ ~SizesFit /\ CS <= 256 /\ N > 0 /\ W > 0
    /\ dec.kind = "InvalidParameters" /\ origin.kind = "given"

\* C3: an InvalidParameters error carries checksum_bits = CS,
\* total_bits = N*8 + CS and words = W, the sizes do not fit, and no
\* Mnemonics or Entropy value comes with it.
C3_ErrorFields ==
    /\ enc.kind = "InvalidParameters" =>
          /\ enc.checksum_bits = CS /\ enc.total_bits = N * 8 + CS
          /\ enc.words = W /\ ~SizesFit
          /\ enc.value = <<>> /\ mnemonics = <<>>
    /\ dec.kind = "InvalidParameters" =>
          /\ dec.checksum_bits = CS /\ dec.total_bits = N * 8 + CS
          /\ dec.words = W /\ ~SizesFit
          /\ dec.value = <<>>

C3_Witness ==
    /\ enc.kind = "InvalidParameters"
    /\ enc.checksum_bits > 0 /\ enc.total_bits > enc.checksum_bits
    /\ enc.words > 0 /\ enc.total_bits # enc.words

\* C4: flipping any single one of the last CS bits of the phrase that
\* to_mnemonics returned makes from_mnemonics fail with ChecksumInvalid.
C4_ChecksumSensitivity ==
    (origin.kind = "flip" /\ origin.bit >= N * 8 /\ Called(dec))
        => dec.kind = "ChecksumInvalid"

C4_Witness ==
    /\ origin.kind = "flip" /\ origin.bit = W * 11 - 1
    /\ CS > 8 /\ CS % 8 # 0
    /\ dec.kind = "ChecksumInvalid"

\* C5 as stated: replacing the last word of the phrase of 16 zero bytes
\* (N=16, W=12, CS=4) by any other index makes from_mnemonics fail with
\* ChecksumInvalid.
C5_AnyOtherLastWordFails ==
    (origin.kind = "replace" /\ Called(dec)) => dec.kind = "ChecksumInvalid"

\* the entropy a phrase of eleven zero indices and the last index x holds
ReplacedEntropy(x) == [i \in 1..ScenarioN |-> IF i = ScenarioN THEN x \div 16 ELSE 0]

\* C5, amended: replacing the last word by another index x makes
\* from_mnemonics fail with ChecksumInvalid if and only if the low 4 bits of
\* x differ from the top 4 bits of the digest of the entropy the new phrase
\* holds (fifteen zero bytes, then the high 7 bits of x); so it fails for
\* every other x in 0..15, and otherwise may return Ok with other entropy.
C5_LastWordReplaced ==
    (origin.kind = "replace" /\ Called(dec)) =>
        LET x == origin.bit
            top == full_checksum_data(sha, ReplacedEntropy(x))[1] \div 16
        IN  /\ dec.kind = "ChecksumInvalid" <=> (x % 16 # top)
            /\ x < 16 => dec.kind = "ChecksumInvalid"
            /\ dec.kind # "ChecksumInvalid" =>
                  (dec.kind = "Ok" /\ dec.value = ReplacedEntropy(x))

C5_Witness ==
    /\ origin.kind = "replace" /\ origin.bit < 16
    /\ dec.kind = "ChecksumInvalid"

\* C6: for sizes that fit, CS <= 256, the W indices of to_mnemonics, as
\* 11-bit values most significant bit first, are the N*8 entropy bits and
\* then the first CS bits of the digest; 16 zero bytes with W=12, CS=4 give
\* eleven times 0, then 3.
C6_EncodeLayout ==
    (SizesFit /\ CS <= 256 /\ Called(enc)) =>
        /\ enc.kind = "Ok" /\ Len(enc.value) = W
        /\ \A i \in 1..W : enc.value[i] <= MAX_MNEMONIC_VALUE
        /\ StreamOf(enc.value, 11) = StreamOf(entropy, 8) \o DigestBits(entropy)
        /\ (N = ScenarioN /\ W = ScenarioW /\ entropy = Zeros(ScenarioN))
              => enc.value = <<0, 0, 0, 0, 0, 0, 0, 0, 0, 0, 0, 3>>

C6_Witness ==
    /\ enc.kind = "Ok" /\ N = MaxN /\ W = MaxW
    /\ \E i \in 1..N : entropy[i] \notin {0, 255}

\* C7: for sizes that fit, 0 < CS <= 256, from_mnemonics returns
\* ChecksumInvalid if and only if the CS bits after the first N*8 bits of
\* the phrase differ from the top CS bits of the digest of the N bytes the
\* phrase holds; otherwise it returns Ok with those N bytes.
C7_DecodeRule ==
    (SizesFit /\ 0 < CS /\ CS <= 256 /\ Called(dec)) =>
        /\ dec.kind = "ChecksumInvalid"
              <=> (PhraseChecksum # DigestBits(PhraseEntropy))
        /\ dec.kind # "ChecksumInvalid"
              => (dec.kind = "Ok" /\ dec.value = PhraseEntropy)

\* a flipped entropy bit whose new entropy has the same checksum bits
C7_Witness ==
    /\ origin.kind = "flip" /\ origin.bit < N * 8
    /\ dec.kind = "Ok" /\ dec.value # entropy /\ CS > 0

\* C8: with CS = 0 and N*8 = W*11, from_mnemonics compares no checksum byte
\* and returns Ok for every phrase of indices in 0..2047.
C8_NoChecksum ==
    (SizesFit /\ CS = 0 /\ Called(dec)) =>
        /\ dec.kind = "Ok" /\ dec.compared = 0
        /\ dec.value = PhraseEntropy

C8_Witness ==
    /\ CS = 0 /\ W = MaxW /\ N = MaxN /\ origin.kind = "given" /\ origin.bit = 1
    /\ dec.kind = "Ok"

\* C9: with CS > 256, to_mnemonics and from_mnemonics panic, whatever N and
\* W are: no Ok and no EntropyError is returned.
C9_AssertChecksumBits ==
    CS > 256 =>
        /\ Called(enc) => enc.kind = "panic"
        /\ Called(dec) => dec.kind = "panic"

C9_Witness ==
    /\ CS > 256 /\ SizesFit /\ enc.kind = "panic" /\ W > 0

\* the number of pieces of `text`: one more than its spaces
Pieces == Cardinality({i \in 1..Len(text) : text[i] = SP}) + 1

\* C10: for every text whose number of pieces differs from W, from_string
\* fails with InvalidWords{expected_words: W, got_words: the number of
\* pieces}, whether or not the pieces are words, and looks no word up.
C10_InvalidWords ==
    (parsed.kind # "none" /\ Pieces # W) =>
        /\ parsed.kind = "InvalidWords"
        /\ parsed.expected_words = W /\ parsed.got_words = Pieces
        /\ parsed.lookups = 0

\* eleven words where twelve are expected
C10_Witness ==
    /\ parsed.kind = "InvalidWords"
    /\ parsed.expected_words = 12 /\ parsed.got_words = 11

\* the position of the j-th space of `text`; 0 before the first piece and one
\* past the end after the last
SepPos(j) ==
    IF j = 0 THEN 0
    ELSE IF j >= Pieces THEN Len(text) + 1
    ELSE CHOOSE p \in 1..Len(text) :
             /\ text[p] = SP
             /\ Cardinality({q \in 1..p : text[q] = SP}) = j

\* the j-th piece of `text`, j in 1..Pieces
Token(j) == SubSeq(text, SepPos(j - 1) + 1, SepPos(j) - 1)

\* the index of the dictionary's word t, -1 when t is not one of its words:
\* the words are the two-letter numerals of 0..2047, kept in ascending order
\* by ORDERED and in descending order by UNORDERED
IndexOfWord(d, t) ==
    IF Len(t) = 2 /\ t[1] < Radix /\ t[2] < Radix
       /\ t[1] * Radix + t[2] <= MAX_MNEMONIC_VALUE
    THEN IF d.ordered THEN t[1] * Radix + t[2]
         ELSE MAX_MNEMONIC_VALUE - (t[1] * Radix + t[2])
    ELSE 0 - 1

\* the pieces of `text` that are no word of the dictionary
Absent == {j \in 1..Pieces : IndexOfWord(dic, Token(j)) < 0}

\* C11: when the text has W pieces, from_string looks them up in order: the
\* first piece that is no word makes it fail with WordError carrying that
\* piece's position and the piece itself, no later piece is looked up and no
\* indices are returned; when every piece is a word the result is Ok and its
\* i-th index is the index of the i-th piece.
C11_FirstAbsentWord ==
    (pc = "parsed" /\ Pieces = W) =>
        IF Absent = {}
        THEN /\ parsed.kind = "Ok"
             /\ Len(parsed.value) = W
             /\ \A j \in 1..W : parsed.value[j] = IndexOfWord(dic, Token(j))
             /\ parsed.lookups = W
        ELSE LET first == CHOOSE j \in Absent : \A o \in Absent : j <= o IN
             /\ parsed.kind = "WordError"
             /\ parsed.index = first - 1
             /\ parsed.word_searched = Token(first)
             /\ parsed.lookups = first
             /\ parsed.value = <<>>

\* three pieces of which the second and the third are no words: the error
\* names the second and the third was never looked up; and twelve words parsed
C11_Witness ==
    /\ pc = "parsed" /\ W = 3 /\ Pieces = 3
    /\ Absent = {2, 3}
    /\ parsed.kind = "WordError" /\ parsed.index = 1 /\ parsed.lookups = 2

\* the words of `indices` joined by single separators
RECURSIVE JoinWords(_, _)
JoinWords(d, indices) ==
    IF indices = <<>> THEN <<>>
    ELSE IF Len(indices) = 1 THEN WordsAt(d, indices[1])
    ELSE WordsAt(d, indices[1]) \o <<SP>> \o JoinWords(d, Tail(indices))

\* C12: to_string returns the words of the W indices in index order joined by
\* the separator: W - 1 separators when W >= 1, none first, none last, and
\* the empty string when W = 0.
C12_ToString ==
    pc = "rendered" =>
        /\ text = JoinWords(dic, mnemonics)
        /\ W = 0 => text = <<>>
        /\ W >= 1 =>
              /\ Pieces = W
              /\ text[1] # SP /\ text[Len(text)] # SP
              /\ \A j \in 1..W : Token(j) = WordsAt(dic, mnemonics[j])

\* twelve indices rendered: eleven separators
C12_Witness ==
    /\ pc = "rendered" /\ W = ScenarioW /\ Len(mnemonics) = ScenarioW
    /\ Pieces = ScenarioW /\ mnemonics[1] # mnemonics[2]

\* C13: MnemonicIndex::new(m) returns Some(MnemonicIndex(m)), the value
\* unchanged, exactly when m <= 2047; for every m of 2048..65535 it returns
\* None: a too large value is never truncated or wrapped into the range.
C13_IndexNew ==
    made.called =>
        /\ made.ret.some <=> raw <= 2047
        /\ made.ret.some => made.ret.v = raw
        /\ raw \in 2048..65535 => made.ret = [some |-> FALSE, v |-> 0]

\* 2053 would wrap to 5: it is refused
C13_Witness ==
    /\ made.called /\ raw = 2053 /\ ~made.ret.some

\* C14: in a dictionary of 2048 distinct words whose `ordered` flag is set
\* only if they are sorted, looking up the word of any index i of 0..2047
\* gives Ok(i), by the binary search and by the linear scan alike.
C14_Bijection ==
    pc = "index" =>
        /\ text = WordsAt(dic, held)
        /\ found.ret.ok /\ found.ret.v = held

\* the last word of the sorted dictionary and a word of the unsorted one, found
C14_Witness ==
    /\ pc = "index" /\ found.ret.ok
    /\ \/ dic = ORDERED /\ held = MAX_MNEMONIC_VALUE /\ found.ret.v = held
       \/ dic = UNORDERED /\ held = 1 /\ found.ret.v = held

\* C15: any k values of 0..2047 written with write and then finalize come
\* back, the same values in the same order, when the emitted bytes go in
\* order through read8 from S0, and when BitReaderBy11::read is called k times.
C15_TranscoderRoundTrip ==
    bpc.op = "read" =>
        /\ ~bw.writer.panic /\ ~br.reader.panic
        /\ rd.out = SubSeq(symbols, 1, Len(rd.out))
        /\ rd.pos = Len(Emitted(bw.writer)) => rd.out = symbols
        /\ br.out = SubSeq(symbols, 1, Len(br.out))

\* the sixteen WORDS of the tests, packed into BYTES and read back both ways
C15_Witness ==
    /\ bpc.op = "read" /\ symbols = WORDS(16)
    /\ Emitted(bw.writer) = BYTES
    /\ rd.out = symbols /\ br.out = symbols

\* C16: k calls of write followed by finalize emit ceil(11k/8) bytes in all,
\* none when k = 0.
C16_PackedByteCount ==
    bpc.op = "read" =>
        /\ ~bw.writer.panic
        /\ Len(Emitted(bw.writer)) = (11 * Len(symbols) + 7) \div 8
        /\ Len(symbols) = 0 => Emitted(bw.writer) = <<>>

\* three values take five bytes, the last of them padded
C16_Witness ==
    /\ bpc.op = "read" /\ Len(symbols) = 3
    /\ Len(Emitted(bw.writer)) = 5 /\ symbols[1] = 2047

\* the bits a step works on: the pending bits followed by the new ones
Joined(width) == step.before.c * Pow2(width) + step.input

\* C17: a write from p pending bits emits one byte if p + 11 < 16 and two
\* otherwise, in stream order, and leaves (p + 11) mod 8 bits pending: the
\* bytes are the top bits of the pending bits followed by the eleven new
\* ones, the new pending value is the low bits that remain.
C17_PackerStep ==
    step.op = "write" =>
        LET p == step.before.k
            nb == IF p + 11 < 16 THEN 1 ELSE 2
            left == p + 11 - 8 * nb
        IN /\ p \in 0..7
           /\ Len(step.out) = nb
           /\ \A j \in 1..nb :
                  step.out[j] = (Joined(11) \div Pow2(p + 11 - 8 * j)) % 256
           /\ wstate.k = (p + 11) % 8 /\ wstate.k = left
           /\ wstate.c = Joined(11) % Pow2(left)

\* 2047 written on seven pending ones: two bytes of ones, two ones pending
C17_Witness ==
    /\ step.op = "write" /\ step.before = WS(7, 127) /\ step.input = 2047
    /\ step.out = <<255, 255>> /\ wstate = WS(2, 3)

\* C18: finalize emits nothing when no bit is pending, and otherwise one byte
\* whose top p bits are the p pending bits and whose low 8 - p bits are zero.
C18_Finalization ==
    step.op = "finalize" =>
        LET p == step.before.k IN
        IF p = 0 THEN step.out = <<>>
        ELSE /\ Len(step.out) = 1
             /\ step.out[1] \div Pow2(8 - p) = step.before.c
             /\ step.out[1] % Pow2(8 - p) = 0

\* the three pending bits 101 leave as 1010 0000
C18_Witness ==
    /\ step.op = "finalize" /\ step.before = WS(3, 5) /\ step.out = <<160>>

\* C19: read8 from p pending bits yields no symbol when p + 8 < 11 and one
\* symbol otherwise: the top eleven bits of the pending bits followed by the
\* eight new ones; the next state holds the (p + 8) mod 11 low bits that remain.
C19_UnpackerStep ==
    step.op = "read" =>
        LET p == step.before.k IN
        /\ p \in 0..10
        /\ rstate.k = (p + 8) % 11
        /\ IF p + 8 < 11
           THEN step.out = <<>> /\ rstate.c = Joined(8)
           ELSE /\ step.out = <<Joined(8) \div Pow2(p + 8 - 11)>>
                /\ rstate.c = Joined(8) % Pow2(p + 8 - 11)

\* ten pending ones and a byte of ones: the symbol 2047, seven ones pending
C19_Witness ==
    /\ step.op = "read" /\ step.before = RS(10, 1023) /\ step.input = 255
    /\ step.out = <<2047>> /\ rstate = RS(7, 127)

\* C20: side by side from the start, the state machines and the accumulators
\* emit the same bytes and the same symbols at every step, the variant's
\* index is the bit count and the value it carries is the accumulator's
\* valid low bits.
C20_SameAsAccumulator ==
    /\ step.op \in {"write", "finalize", "read"} => step.out = step.ref
    /\ step.op \in {"writer", "write", "finalize"} =>
           wstate.k = wacc.count /\ wstate.c = wacc.acc
    /\ step.op \in {"reader", "read"} =>
           rstate.k = racc.count /\ rstate.c = racc.acc

\* a write that emits two bytes and a read that yields a symbol
C20_Witness ==
    \/ step.op = "write" /\ Len(step.out) = 2 /\ step.out = step.ref
          /\ wstate.c = 1 /\ wacc = [acc |-> 1, count |-> 1]
    \/ step.op = "read" /\ Len(step.out) = 1 /\ step.out = step.ref
          /\ racc = [acc |-> 5, count |-> 3]

\* byte j (from 0) of the stream of the indices, eleven bits each, the bits
\* past its end being zero: eight of the 22 bits of the index that holds the
\* byte's first bit and of the index after it
ByteAt(indices, j) ==
    LET a == (8 * j) \div 11
        off == (8 * j) % 11
        two == indices[a + 1] * 2048
                   + (IF a + 2 <= Len(indices) THEN indices[a + 2] ELSE 0)
    IN (two \div Pow2(14 - off)) % 256

\* a conversion in progress or returned whose sizes fit, past its entry
Running(c) ==
    c.at # "entry" /\ c.cs <= 256 /\ c.n * 8 + c.cs = c.w * 11

ChecksumBytes(c) == (c.cs + 7) \div 8

\* what C21 says of one from_mnemonics in progress
C21_Buffers(c) ==
    LET m == c.to_validate.writer
        pos == m.entropy_writer_pos
    IN /\ ~m.panic /\ c.ret.kind # "panic"
       /\ Len(m.entropy) = c.n /\ Len(m.checksum_data) = 256
       /\ ChecksumBytes(c) <= 32
       /\ pos = IF c.at = "done" THEN c.n + ChecksumBytes(c)
                ELSE (11 * c.i) \div 8
       /\ \A j \in 0..(pos - 1) :
              ByteAt(c.arg, j) = IF j < c.n THEN m.entropy[j + 1]
                                ELSE m.checksum_data[j - c.n + 1]
       /\ \A j \in 0..(c.n - 1) : j >= pos => m.entropy[j + 1] = 0
       /\ \A j \in 0..255 : j + c.n >= pos => m.checksum_data[j + 1] = 0

\* C21: in from_mnemonics with sizes that fit and CS <= 256 the transcoder
\* emits N + ceil(CS/8) bytes in all: the first N fill the entropy buffer in
\* order, the others, at most 32, the start of the checksum buffer in order,
\* and no byte is written anywhere else or past either buffer.
C21_EmittedBytes ==
    \A i \in DOMAIN insts :
        (insts[i].fn = "from_mnemonics" /\ Running(insts[i]))
            => C21_Buffers(insts[i])

\* the largest checksum: one byte of entropy and 32 bytes of checksum
C21_Witness ==
    \E i \in DOMAIN insts :
        /\ insts[i].fn = "from_mnemonics" /\ insts[i].at = "done"
        /\ insts[i].cs = 256 /\ insts[i].ret.kind = "Ok"
        /\ insts[i].to_validate.writer.entropy_writer_pos = 33

\* what C22 says of one to_mnemonics in progress
C22_Reads(c) ==
    /\ c.ret.kind # "panic"
    /\ c.read_pos <= c.n + ChecksumBytes(c)
    /\ c.read_pos - c.n <= 32
    /\ Len(c.words) <= c.w
    /\ \A k \in 1..Len(c.words) : c.words[k] <= 2047
    /\ c.at = "done" =>
          /\ c.ret.kind = "Ok" /\ Len(c.ret.value) = c.w
          /\ c.read_pos = c.n + ChecksumBytes(c)
          /\ c.ret.steps = c.read_pos

C22_AllReads ==
    \A i \in DOMAIN insts :
        (insts[i].fn = "to_mnemonics" /\ Running(insts[i]))
            => C22_Reads(insts[i])

C22_AllDone == \A i \in DOMAIN insts : insts[i].at = "done"

\* C22: in to_mnemonics with sizes that fit and CS <= 256 the loop ends, after
\* reading N + ceil(CS/8) bytes, the N of the entropy and then the first of
\* the digest, with W indices written; it reads no digest byte past the 32
\* and every value it produces is at most 2047.
C22_LoopEnds == []C22_AllReads /\ <>C22_AllDone

\* the largest checksum: all 32 bytes of the digest are read
C22_Witness ==
    \E i \in DOMAIN insts :
        /\ insts[i].fn = "to_mnemonics" /\ insts[i].at = "done"
        /\ insts[i].cs = 256 /\ insts[i].read_pos = 33
        /\ Len(insts[i].ret.value) = 24

\* C24: two conversions, each with its own transcoder state and its own
\* buffers, their steps interleaved in any order: each returns what it
\* returns when run alone, and a step of one leaves the other as it was.
C24_Isolation ==
    /\ [](\A i \in DOMAIN insts :
            insts[i].at = "done" =>
                insts[i].ret =
                    IF insts[i].fn = "from_mnemonics"
                    THEN from_mnemonics(insts[i].n, insts[i].w, insts[i].cs,
                                        insts[i].s, insts[i].arg)
                    ELSE to_mnemonics(insts[i].n, insts[i].w, insts[i].cs,
                                      insts[i].s, insts[i].arg))
    /\ [][\A i \in DOMAIN insts :
            insts'[i] # insts[i] =>
                \A j \in DOMAIN insts \ {i} : insts'[j] = insts[j]]_vars

\* a decoding that failed and an encoding of other sizes, both returned, each
\* having stepped while the other was in its loop
C24_Witness ==
    /\ insts[1].fn = "from_mnemonics" /\ insts[1].ret.kind = "ChecksumInvalid"
    /\ insts[2].fn = "to_mnemonics" /\ insts[2].ret.kind = "Ok"
    /\ insts[1].n # insts[2].n

C26_ReverseRoundTrip ==
    pc = "back" =>
        /\ SizesFit /\ CS <= 256 /\ dec.kind = "Ok"
        /\ enc.kind = "Ok" /\ enc.value = mnemonics

\* a phrase with its last word replaced that decodes, to another entropy
\* value, and comes back from it
C26_Witness ==
    /\ pc = "back" /\ origin.kind = "replace" /\ CS > 0
    /\ dec.value # entropy /\ enc.value = mnemonics

\* C29: a phrase built from a MnemonicIndex whose field is above 2047 makes
\* from_mnemonics, sizes fitting, panic on the assertion of write, before any
\* digest is computed: it returns neither Ok nor an error.  The phrases that
\* to_mnemonics and from_string return hold indices of 0..2047 only and never
\* meet that assertion.
C29_OutOfRangeIndex ==
    /\ (origin.kind = "forged" /\ Called(dec) /\ SizesFit /\ CS <= 256) =>
           dec.kind = "panic" /\ dec.hashed = 0 /\ dec.steps = W + 1
    /\ enc.kind = "Ok" => \A i \in 1..Len(enc.value) : enc.value[i] <= 2047
    /\ parsed.kind = "Ok" =>
           \A i \in 1..Len(parsed.value) : parsed.value[i] <= 2047
    /\ (origin.kind \in {"to_mnemonics", "from_string"} /\ Called(dec)
            /\ CS <= 256) => dec.kind # "panic"

\* 2048, that masking would turn into 0, as the last index of three
C29_Witness ==
    /\ origin = Origin("forged", 2048) /\ W = 3 /\ mnemonics[3] = 2048
    /\ SizesFit /\ dec.kind = "panic"

\* the bytes of a step as one number, the first byte on top
RECURSIVE BytesValue(_)
BytesValue(bytes) ==
    IF bytes = <<>> THEN 0
    ELSE BytesValue(SubSeq(bytes, 1, Len(bytes) - 1)) * 256 + bytes[Len(bytes)]

\* C25: from S0 the WriteState after any writes is Sk(c) with k in 0..7 and
\* c < 2^k, the ReadState after any read8 is Sk(c) with k in 0..10 and
\* c < 2^k; the value value_or computes is below 2^18, and the casts and the
\* shifts of append11 and read8 lose no bit: what a step emits followed by
\* what it leaves pending is what was pending followed by what came in.
C25_AccumulatorBounds ==
    /\ wstate.k \in 0..7 /\ wstate.c \in 0..(Pow2(wstate.k) - 1)
    /\ rstate.k \in 0..10 /\ rstate.c \in 0..(Pow2(rstate.k) - 1)
    /\ step.op = "read" =>
           /\ value_or(step.before, step.input) = Joined(8)
           /\ Joined(8) < Pow2(18)
           /\ Joined(8) =
                  (IF step.out = <<>> THEN 0 ELSE step.out[1]) * Pow2(rstate.k)
                      + rstate.c
    /\ step.op = "write" =>
           /\ \A j \in 1..Len(step.out) : step.out[j] \in 0..255
           /\ Joined(11) = BytesValue(step.out) * Pow2(wstate.k) + wstate.c

\* the largest value of value_or: ten pending ones and a byte of ones
C25_Witness ==
    /\ step.op = "read" /\ step.before.k = 10
    /\ value_or(step.before, step.input) = Pow2(18) - 1

C28_ZeroWords ==
    /\ Len(Split(text, separator(dic))) >= 1
    /\ (pc = "rendered" /\ W = 0) => text = <<>>
    /\ (pc = "parsed" /\ W = 0) =>
           /\ parsed.kind = "InvalidWords"
           /\ parsed.expected_words = 0 /\ parsed.got_words >= 1
           /\ parsed.got_words = Pieces

\* the empty string refused for its one piece
C28_Witness ==
    /\ pc = "parsed" /\ W = 0 /\ text = <<>>
    /\ parsed.kind = "InvalidWords" /\ parsed.got_words = 1

\* BitReaderBy11::read at its unreachable!(): two bytes, no symbol
AtUnreachable(self) ==
    /\ Len(self.buffer) >= 2
    /\ LET next == read8(self.state, self.buffer[1]) IN
       ~next.one /\ ~read8(next.state, self.buffer[2]).one

\* C30: a read8 that returns Zero leaves a state of at least eight pending
\* bits, from which every byte yields a symbol: no two bytes in a row give
\* Zero, read never comes to its unreachable!() and takes one byte or two
\* off its buffer.
C30_NoTwoZeros ==
    /\ [](bpc.op = "read" => ~br.reader.panic /\ ~AtUnreachable(br.reader))
    /\ [][(bpc.op = "read" /\ rd'.pos = rd.pos + 1 /\ rd'.out = rd.out) =>
              /\ rd'.state.k >= 8
              /\ \A v \in 0..255 : read8(rd'.state, v).one]_vars
    /\ [][(bpc.op = "read" /\ br' # br) =>
              /\ Len(br'.out) = Len(br.out) + 1
              /\ Len(br.reader.buffer) - Len(br'.reader.buffer) \in {1, 2}]_vars

\* a read that took two bytes after reads that took one
C30_Witness ==
    /\ bpc.op = "read" /\ Len(br.out) = 4 /\ ~br.reader.panic
    /\ Len(Emitted(bw.writer)) - Len(br.reader.buffer) = 6
    /\ rd.pos = 1 /\ rd.out = <<>> /\ rd.state.k = 8

=============================================================================
